---------------------------- MODULE Spec2Model ----------------------------
(***************************************************************************)
(* ArtesanApp: the `productos` table (Store) and the Tkinter handlers that *)
(* keep the Treeview in sync with it (Presentation Sync).                  *)
(*                                                                         *)
(* A text (Python str) is a sequence of one-character strings.  A price    *)
(* (Python float / SQLite REAL) is an integer number of hundredths; the    *)
(* price texts of the model carry at most two decimals, so the value is    *)
(* exact.  Reads of the table (consultar_todos) are assumed not to fault;  *)
(* inserts and deletes may fault (the try/except of lines 78-90, 126-135). *)
(***************************************************************************)
EXTENDS Integers, Sequences, FiniteSets, TLC

\* Cap on the AUTOINCREMENT counter: no insert is attempted beyond it.
MaxSeq == 3

VARIABLES
    db,          \* the rows of table productos: a set of 8-tuples
    seq,         \* sqlite_sequence.seq of productos (largest id ever assigned)
    form,        \* the form's seven Tk variables
    search_var,  \* the text of the search entry
    tree,        \* the Treeview's items, in display order: a sequence of value tuples
    selection,   \* position in tree of the first selected item, 0 if none
    last,        \* the most recent event: handler, dialog shown, Store call and outcome
    assigned     \* history: the ids handed out by successful inserts

vars == <<db, seq, form, search_var, tree, selection, last, assigned>>

-----------------------------------------------------------------------------
\* Python str operations

\* str.strip(): removes leading and trailing whitespace
RECURSIVE LStrip(_)
LStrip(s) == IF s # <<>> /\ Head(s) = " " THEN LStrip(Tail(s)) ELSE s

RECURSIVE RStrip(_)
RStrip(s) ==
    IF s # <<>> /\ s[Len(s)] = " " THEN RStrip(SubSeq(s, 1, Len(s) - 1)) ELSE s

Strip(s) == RStrip(LStrip(s))

LowerChar(c) ==
    CASE c = "A" -> "a"
      [] c = "B" -> "b"
      [] c = "C" -> "c"
      [] OTHER -> c

\* str.lower()
Lower(s) == [i \in 1..Len(s) |-> LowerChar(s[i])]

\* the `in` operator on two str: sub occurs in s as a contiguous run
RECURSIVE StrIn(_, _)
StrIn(sub, s) ==
    IF Len(sub) > Len(s) THEN FALSE
    ELSE IF SubSeq(s, 1, Len(sub)) = sub THEN TRUE
    ELSE StrIn(sub, Tail(s))

DigitChars == <<"0", "1", "2", "3", "4", "5", "6", "7", "8", "9">>

IsDigit(c) == \E i \in 1..Len(DigitChars) : DigitChars[i] = c

DigitVal(c) == (CHOOSE i \in 1..Len(DigitChars) : DigitChars[i] = c) - 1

AllDigits(s) == \A i \in 1..Len(s) : IsDigit(s[i])

\* value of a run of decimal digits (0 for the empty run)
RECURSIVE DigitsVal(_)
DigitsVal(s) ==
    IF s = <<>> THEN 0
    ELSE 10 * DigitsVal(SubSeq(s, 1, Len(s) - 1)) + DigitVal(s[Len(s)])

\* int(text) succeeds: a non-empty run of digits
IntOk(s) == s # <<>> /\ AllDigits(s)

\* int(text)
IntOf(s) == DigitsVal(s)

DotPos(s) == {i \in 1..Len(s) : s[i] = "."}

\* float(text) succeeds: digits, optionally with one point, at least one digit
FloatOk(s) ==
    \/ IntOk(s)
    \/ /\ Cardinality(DotPos(s)) = 1
       /\ Len(s) >= 2
       /\ LET p == CHOOSE i \in DotPos(s) : TRUE
          IN  AllDigits(SubSeq(s, 1, p - 1)) /\ AllDigits(SubSeq(s, p + 1, Len(s)))

\* float(text), in hundredths (texts with at most two decimals)
FloatOf(s) ==
    IF DotPos(s) = {} THEN 100 * DigitsVal(s)
    ELSE LET p == CHOOSE i \in DotPos(s) : TRUE
             frac == SubSeq(s, p + 1, Len(s))
         IN  100 * DigitsVal(SubSeq(s, 1, p - 1))
               + (IF Len(frac) = 0 THEN 0
                  ELSE IF Len(frac) = 1 THEN 10 * DigitVal(frac[1])
                  ELSE 10 * DigitVal(frac[1]) + DigitVal(frac[2]))

\* str(n) for n >= 0
RECURSIVE IntText(_)
IntText(n) ==
    IF n < 10 THEN <<DigitChars[n + 1]>>
    ELSE IntText(n \div 10) \o <<DigitChars[(n % 10) + 1]>>

\* f"{x:.2f}" of a price held in hundredths
Format2f(x) ==
    IntText(x \div 100) \o <<".">>
        \o <<DigitChars[((x % 100) \div 10) + 1], DigitChars[(x % 10) + 1]>>

-----------------------------------------------------------------------------
\* Store: table productos
\* a row is <<id, nombre, categoria, precio, stock, disponible, proveedor, tipo_envio>>

Ids(rows) == {r[1] : r \in rows}

MaxOf(S) == IF S = {} THEN 0 ELSE CHOOSE m \in S : \A x \in S : x <= m

\* variant: INTEGER PRIMARY KEY without AUTOINCREMENT (one more than the largest id present)
NextIdSinAutoincrement(rows, s) == MaxOf(Ids(rows)) + 1

\* INTEGER PRIMARY KEY AUTOINCREMENT: one more than the largest id ever assigned
NextId(rows, s) == MaxOf(Ids(rows) \cup {s}) + 1

\* insertar_producto(data): the outcome and the table after it
insertar_producto(rows, s, data, fault) ==
    IF fault
    THEN [ok |-> FALSE, db |-> rows, seq |-> s]
    ELSE LET id == NextId(rows, s)
         IN  [ok |-> TRUE, db |-> rows \cup {<<id>> \o data}, seq |-> id]

\* consultar_todos(): every row, in rowid order
RECURSIVE consultar_todos(_)
consultar_todos(rows) ==
    IF rows = {} THEN <<>>
    ELSE LET first == CHOOSE r \in rows : \A o \in rows : r[1] <= o[1]
         IN  <<first>> \o consultar_todos(rows \ {first})

\* variant: WHERE id <= ? instead of WHERE id = ?
eliminar_producto_hasta(rows, producto_id, fault) ==
    IF fault
    THEN [ok |-> FALSE, db |-> rows]
    ELSE [ok |-> TRUE, db |-> {r \in rows : r[1] > producto_id}]

\* variant: reports failure when the DELETE matched no row
eliminar_producto_rowcount(rows, producto_id, fault) ==
    IF fault
    THEN [ok |-> FALSE, db |-> rows]
    ELSE [ok |-> producto_id \in Ids(rows), db |-> {r \in rows : r[1] # producto_id}]

\* eliminar_producto(producto_id): the outcome and the table after it
eliminar_producto(rows, producto_id, fault) ==
    IF fault
    THEN [ok |-> FALSE, db |-> rows]
    ELSE [ok |-> TRUE, db |-> {r \in rows : r[1] # producto_id}]


-----------------------------------------------------------------------------
\* Presentation Sync: what the user can enter

Joyeria == <<"J", "o", "y", "e", "r", "i", "a">>
Textil == <<"T", "e", "x", "t", "i", "l">>
Otros == <<"O", "t", "r", "o", "s">>

Form(n, c, p, s, d, pr, t) ==
    [nombre |-> n, categoria |-> c, precio |-> p, stock |-> s,
     disponible |-> d, proveedor |-> pr, tipo_envio |-> t]

\* limpiar_form: the form's default values
FormDefault == Form(<<>>, <<>>, <<>>, <<>>, 1, <<>>, "Local")

\* forms whose required fields are filled and whose numbers parse
ValidForms ==
    { Form(<<" ", "A", "b", " ">>, Joyeria, <<"4", ".", "5">>, <<"1", "0">>, 1,
           <<"P", " ">>, "Nacional"),
      Form(<<"B", "c">>, Textil, <<" ", ".", "2", "5">>, <<"7", " ">>, 0, <<>>, "Local") }

\* forms with a required field empty after trimming
EmptyFieldForms ==
    { FormDefault,
      Form(<<" ", " ">>, Joyeria, <<"1", "2">>, <<"0">>, 1, <<>>, "Local"),
      Form(<<"c">>, <<>>, <<"1", "2">>, <<"0">>, 1, <<>>, "Local"),
      Form(<<"c">>, Otros, <<" ">>, <<"0">>, 1, <<>>, "Local"),
      Form(<<"c">>, Otros, <<"1", "2">>, <<>>, 0, <<"P">>, "Local"),
      Form(<<>>, Otros, <<"a", "b", "c">>, <<"0">>, 1, <<>>, "Local") }

\* forms whose required fields are filled but whose price or stock does not parse
BadNumberForms ==
    { Form(<<"c">>, Otros, <<"a", "b", "c">>, <<"0">>, 1, <<>>, "Local"),
      Form(<<"c">>, Otros, <<"1", "2">>, <<"2", ".", "5">>, 1, <<>>, "Local"),
      Form(<<"B", "c">>, Textil, <<"1", ".", "2", ".">>, <<"7">>, 0, <<>>, "Nacional") }

Forms == ValidForms \cup EmptyFieldForms \cup BadNumberForms

SearchTexts ==
    { <<>>, <<" ", "B">>, <<"A", "B">>, <<"C", " ">>, <<"c", "a">> }

\* the events recorded in `last`: the handler or function that ran (op), the
\* dialog it showed (msg), the Store function it called (call) with the id it
\* passed or obtained (id) and the tuple it passed or returned (data), the
\* function's result (ok), whether storage faulted (fault) and the answer
\* given to askyesno (confirm)
Event(op) ==
    [op |-> op, msg |-> "none", call |-> "none", id |-> 0, data |-> <<>>,
     ok |-> TRUE, fault |-> FALSE, confirm |-> FALSE]

-----------------------------------------------------------------------------
\* Presentation Sync: the handlers

\* variant: the stock entry is not among the required fields
CamposVaciosSinStock(nombre, categoria, precio, stock) ==
    nombre = <<>> \/ categoria = <<>> \/ precio = <<>>

\* on_guardar, line 309: a required field is empty
CamposVacios(nombre, categoria, precio, stock) ==
    nombre = <<>> \/ categoria = <<>> \/ precio = <<>> \/ stock = <<>>

\* on_guardar, lines 314-319: both conversions succeed
NumerosValidos(precio, stock) == FloatOk(precio) /\ IntOk(stock)

\* variant: the name is stored as typed, without strip()
DatosSinStrip(f) ==
    <<f.nombre, Strip(f.categoria), FloatOf(Strip(f.precio)),
      IntOf(Strip(f.stock)), IF f.disponible # 0 THEN 1 ELSE 0,
      Strip(f.proveedor), f.tipo_envio>>

\* on_guardar, lines 300-306 and 315-322: the tuple handed to insertar_producto
Datos(f) ==
    <<Strip(f.nombre), Strip(f.categoria), FloatOf(Strip(f.precio)),
      IntOf(Strip(f.stock)), IF f.disponible # 0 THEN 1 ELSE 0,
      Strip(f.proveedor), f.tipo_envio>>

\* the values of one Treeview item (lines 365-367, 388-390)
DisplayRow(row) ==
    <<row[1], row[2], row[3], Format2f(row[4]), row[5],
      IF row[6] = 1 THEN "Si" ELSE "No", row[7], row[8]>>

DisplayRows(rows) == [i \in 1..Len(rows) |-> DisplayRow(rows[i])]

\* variant: the name is compared without lower()
CoincideExacto(q, row) == StrIn(q, row[2])

\* on_buscar, line 387: q in row[1].lower()
Coincide(q, row) == StrIn(q, Lower(row[2]))

RECURSIVE Filtrar(_, _)
Filtrar(q, rows) ==
    IF rows = <<>> THEN <<>>
    ELSE (IF Coincide(q, Head(rows)) THEN <<Head(rows)>> ELSE <<>>)
             \o Filtrar(q, Tail(rows))

\* the items mostrar_todos leaves in the Treeview
MostrarTodosItems(rows) == DisplayRows(consultar_todos(rows))

\* the items on_buscar leaves in the Treeview
BuscarItems(rows, texto) ==
    DisplayRows(Filtrar(Lower(Strip(texto)), consultar_todos(rows)))

\* variant: the active filter is applied again after a delete
ItemsFiltrados(rows, texto, items) == BuscarItems(rows, texto)

\* variant: the Treeview is not refreshed after a delete
ItemsSinRefrescar(rows, texto, items) == items

\* on_guardar, line 326: the Treeview after a successful insert
ItemsTrasGuardar(rows, texto, items) == MostrarTodosItems(rows)

\* variant: the answer to askyesno is ignored
SeConfirmaSiempre(confirm) == TRUE

\* on_eliminar, line 419: the delete goes ahead only on a "yes"
SeConfirma(confirm) == confirm

\* on_eliminar, line 422: the Treeview after a successful delete
ItemsTrasEliminar(rows, texto, items) == MostrarTodosItems(rows)

Init ==
    /\ db = {}
    /\ seq = 0
    /\ form = FormDefault
    /\ search_var = <<>>
    /\ tree = MostrarTodosItems({})
    /\ selection = 0
    /\ last = Event("init")
    /\ assigned = {}

\* the user edits the form's entries
EditForm ==
    /\ \E f \in Forms : form' = f
    /\ last' = Event("user")
    /\ UNCHANGED <<db, seq, search_var, tree, selection, assigned>>

\* the user types in the search entry
TypeSearch ==
    /\ \E q \in SearchTexts : search_var' = q
    /\ last' = Event("user")
    /\ UNCHANGED <<db, seq, form, tree, selection, assigned>>

\* the user selects an item of the Treeview, or clears the selection
SelectRow ==
    /\ \E i \in 0..Len(tree) : selection' = i
    /\ last' = Event("user")
    /\ UNCHANGED <<db, seq, form, search_var, tree, assigned>>

on_guardar ==
    LET nombre == Strip(form.nombre)
        categoria == Strip(form.categoria)
        precio == Strip(form.precio)
        stock == Strip(form.stock)
    IN  IF CamposVacios(nombre, categoria, precio, stock)
        THEN /\ last' = [Event("on_guardar") EXCEPT !.msg = "warning_validacion"]
             /\ UNCHANGED <<db, seq, form, search_var, tree, selection, assigned>>
        ELSE IF ~NumerosValidos(precio, stock)
        THEN /\ last' = [Event("on_guardar") EXCEPT !.msg = "error_tipo"]
             /\ UNCHANGED <<db, seq, form, search_var, tree, selection, assigned>>
        ELSE /\ seq < MaxSeq
             /\ \E fault \in BOOLEAN :
                  LET r == insertar_producto(db, seq, Datos(form), fault)
                      ev == [Event("on_guardar") EXCEPT
                                !.call = "insertar_producto", !.data = Datos(form),
                                !.ok = r.ok, !.fault = fault]
                  IN  /\ db' = r.db
                      /\ seq' = r.seq
                      /\ IF r.ok
                         THEN /\ form' = FormDefault
                              /\ tree' = ItemsTrasGuardar(r.db, search_var, tree)
                              /\ selection' = 0
                              /\ last' = [ev EXCEPT !.msg = "info_exito", !.id = r.seq]
                              /\ assigned' = assigned \cup {r.seq}
                         ELSE /\ last' = ev
                              /\ UNCHANGED <<form, tree, selection, assigned>>
             /\ UNCHANGED search_var

limpiar_form ==
    /\ form' = FormDefault
    /\ last' = Event("limpiar_form")
    /\ UNCHANGED <<db, seq, search_var, tree, selection, assigned>>

mostrar_todos ==
    /\ tree' = MostrarTodosItems(db)
    /\ selection' = 0
    /\ last' = Event("mostrar_todos")
    /\ UNCHANGED <<db, seq, form, search_var, assigned>>

on_buscar ==
    /\ tree' = BuscarItems(db, search_var)
    /\ selection' = 0
    /\ last' = Event("on_buscar")
    /\ UNCHANGED <<db, seq, form, search_var, assigned>>

on_eliminar ==
    IF selection = 0
    THEN /\ last' = [Event("on_eliminar") EXCEPT !.msg = "warning_atencion"]
         /\ UNCHANGED <<db, seq, form, search_var, tree, selection, assigned>>
    ELSE LET producto_id == tree[selection][1]
         IN  \E confirm \in BOOLEAN :
               IF ~SeConfirma(confirm)
               THEN /\ last' = [Event("on_eliminar") EXCEPT
                                   !.id = producto_id, !.confirm = confirm]
                    /\ UNCHANGED <<db, seq, form, search_var, tree, selection, assigned>>
               ELSE \E fault \in BOOLEAN :
                      LET r == eliminar_producto(db, producto_id, fault)
                          ev == [Event("on_eliminar") EXCEPT
                                    !.call = "eliminar_producto", !.id = producto_id,
                                    !.ok = r.ok, !.fault = fault, !.confirm = confirm]
                      IN  /\ db' = r.db
                          /\ IF r.ok
                             THEN /\ tree' = ItemsTrasEliminar(r.db, search_var, tree)
                                  /\ selection' = 0
                                  /\ last' = [ev EXCEPT !.msg = "info_eliminado"]
                             ELSE /\ last' = [ev EXCEPT !.msg = "error_eliminar"]
                                  /\ UNCHANGED <<tree, selection>>
                          /\ UNCHANGED <<seq, form, search_var, assigned>>

Next ==
    \/ EditForm
    \/ TypeSearch
    \/ SelectRow
    \/ on_guardar
    \/ limpiar_form
    \/ mostrar_todos
    \/ on_buscar
    \/ on_eliminar

\* the application: the user drives the handlers
Spec == Init /\ [][Next]_vars

-----------------------------------------------------------------------------
\* the Store's functions called directly

DataTuples == {Datos(f) : f \in ValidForms}

CallInsertar ==
    /\ seq < MaxSeq
    /\ \E data \in DataTuples, fault \in BOOLEAN :
         LET r == insertar_producto(db, seq, data, fault)
         IN  /\ db' = r.db
             /\ seq' = r.seq
             /\ last' = [Event("insertar_producto") EXCEPT
                            !.call = "insertar_producto", !.data = data,
                            !.id = IF r.ok THEN r.seq ELSE 0,
                            !.ok = r.ok, !.fault = fault]
             /\ assigned' = IF r.ok THEN assigned \cup {r.seq} ELSE assigned
    /\ UNCHANGED <<form, search_var, tree, selection>>

CallConsultar ==
    /\ last' = [Event("consultar_todos") EXCEPT !.data = consultar_todos(db)]
    /\ UNCHANGED <<db, seq, form, search_var, tree, selection, assigned>>

CallEliminar ==
    /\ \E producto_id \in 0..(MaxSeq + 1), fault \in BOOLEAN :
         LET r == eliminar_producto(db, producto_id, fault)
         IN  /\ db' = r.db
             /\ last' = [Event("eliminar_producto") EXCEPT
                            !.call = "eliminar_producto", !.id = producto_id,
                            !.ok = r.ok, !.fault = fault]
    /\ UNCHANGED <<seq, form, search_var, tree, selection, assigned>>

NextStore == CallInsertar \/ CallConsultar \/ CallEliminar

\* a client of the Store alone
SpecStore == Init /\ [][NextStore]_vars

-----------------------------------------------------------------------------
\* Properties

\* the rows of a sequence other than the one with the given id, in order
RECURSIVE SinId(_, _)
SinId(rows, id) ==
    IF rows = <<>> THEN <<>>
    ELSE (IF Head(rows)[1] = id THEN <<>> ELSE <<Head(rows)>>) \o SinId(Tail(rows), id)

\* sub occurs in s at some offset
OccursIn(sub, s) ==
    \E k \in 0..(Len(s) - Len(sub)) :
        \A j \in 1..Len(sub) : s[k + j] = sub[j]

\* the positions of the rows whose lower-cased name contains q
Matching(q, rows) == {i \in 1..Len(rows) : OccursIn(q, Lower(rows[i][2]))}

\* items shows exactly the rows at the positions pos, in the order of rows
ShowsExactly(items, rows, pos) ==
    /\ Len(items) = Cardinality(pos)
    /\ \A i \in pos :
         LET k == Cardinality({j \in pos : j <= i})
         IN  /\ items[k][1] = rows[i][1]
             /\ items[k][2] = rows[i][2]
             /\ items[k] = DisplayRow(rows[i])

\* what the item of a row inserted from form f must show, after its id
Esperado(f) ==
    <<Strip(f.nombre), Strip(f.categoria), Format2f(FloatOf(Strip(f.precio))),
      IntOf(Strip(f.stock)), IF f.disponible # 0 THEN "Si" ELSE "No",
      Strip(f.proveedor), f.tipo_envio>>

FormCollar ==
    Form(<<" ", "A", "b", " ">>, Joyeria, <<"4", ".", "5">>, <<"1", "0">>, 1,
         <<"P", " ">>, "Nacional")

FormTextil ==
    Form(<<"B", "c">>, Textil, <<" ", ".", "2", "5">>, <<"7", " ">>, 0, <<>>, "Local")

GuardarOk(ev) == ev.op = "on_guardar" /\ ev.call = "insertar_producto" /\ ev.ok

EliminarOk(ev) == ev.op = "on_eliminar" /\ ev.call = "eliminar_producto" /\ ev.ok

\* C1: a submit of a valid form whose insert succeeds leaves a listing that is
\* the full listing of before plus one last row, which shows the trimmed and
\* converted input under an id no other row has; the rows before it are
\* unchanged, and a refresh yields the same listing.
C1_SubmitAddsOneRow ==
    [][GuardarOk(last') =>
        LET before == MostrarTodosItems(db)
            n == Len(before)
        IN  /\ Len(tree') = n + 1
            /\ SubSeq(tree', 1, n) = before
            /\ Tail(tree'[n + 1]) = Esperado(form)
            /\ form = FormCollar =>
                 Tail(tree'[n + 1]) =
                     <<<<"A", "b">>, Joyeria, <<"4", ".", "5", "0">>, 10, "Si",
                       <<"P">>, "Nacional">>
            /\ form = FormTextil =>
                 Tail(tree'[n + 1]) =
                     <<<<"B", "c">>, Textil, <<"0", ".", "2", "5">>, 7, "No",
                       <<>>, "Local">>
            /\ \A i \in 1..n : tree'[i][1] # tree'[n + 1][1]
            /\ Cardinality(db') = Cardinality(db) + 1
            /\ db \subseteq db'
            /\ tree' = MostrarTodosItems(db')]_vars

C1_Witness ==
    /\ GuardarOk(last)
    /\ Len(tree) >= 2
    /\ last.data[1] = <<"A", "b">>
    /\ \E a \in assigned : a \notin Ids(db)

\* C2: a delete of an id that is present, when it completes, removes exactly
\* that row: the listing afterwards is the listing before without it, the
\* other rows unchanged and in the same order.
C2_DeleteRemovesExactlyThatRow ==
    [][(last'.op = "eliminar_producto" /\ last'.ok /\ last'.id \in Ids(db)) =>
        /\ consultar_todos(db') = SinId(consultar_todos(db), last'.id)
        /\ Len(consultar_todos(db')) = Len(consultar_todos(db)) - 1
        /\ db' \subseteq db
        /\ last'.id \notin Ids(db')]_vars

C2_Witness ==
    /\ last.op = "eliminar_producto"
    /\ last.ok
    /\ last.id = 2
    /\ Ids(db) = {1, 3}

\* C3: a submit of an invalid form calls no Store function and changes neither
\* the table nor the listing; with a required field empty after trimming it
\* shows the validation warning, otherwise, with a price or stock that does
\* not parse, the type error.
C3_InvalidSubmitRejected ==
    [][last'.op = "on_guardar" =>
        LET vacio == \/ Strip(form.nombre) = <<>>
                     \/ Strip(form.categoria) = <<>>
                     \/ Strip(form.precio) = <<>>
                     \/ Strip(form.stock) = <<>>
            noparse == \/ ~FloatOk(Strip(form.precio))
                       \/ ~IntOk(Strip(form.stock))
        IN  /\ (vacio \/ noparse) =>
                 /\ last'.call = "none"
                 /\ db' = db /\ seq' = seq /\ tree' = tree
            /\ vacio => last'.msg = "warning_validacion"
            /\ (~vacio /\ noparse) => last'.msg = "error_tipo"
            /\ form \in ValidForms => last'.call = "insertar_producto"]_vars

C3_Witness ==
    /\ last.op = "on_guardar"
    /\ last.msg = "error_tipo"
    /\ form.stock = <<"2", ".", "5">>
    /\ db # {}

\* C4: when the insert or the delete faults, the Store function returns False,
\* the table is unchanged, and the handler shows an error dialog.
C4_FaultSurfacedAsError ==
    [][(last'.call # "none" /\ last'.fault) =>
        /\ ~last'.ok
        /\ db' = db
        /\ last'.msg \in {"error_guardar", "error_eliminar"}]_vars

\* C5: after a successful insert or delete through the handlers the listing
\* shows every row of the table, whatever the search entry holds.
C5_MutationReturnsToFull ==
    [][(GuardarOk(last') \/ EliminarOk(last')) =>
        LET rows == consultar_todos(db')
        IN  /\ ShowsExactly(tree', rows, 1..Len(rows))
            /\ {tree'[i][1] : i \in 1..Len(tree')} = Ids(db')]_vars

C5_Witness ==
    /\ EliminarOk(last)
    /\ Strip(search_var) # <<>>
    /\ Len(BuscarItems(db, search_var)) < Len(tree)

\* C6: a search shows exactly the rows whose lower-cased name contains the
\* trimmed, lower-cased query, in listing order; an empty query shows what a
\* refresh shows; the table is not modified.
C6_FilterShowsMatches ==
    [][last'.op = "on_buscar" =>
        LET q == Lower(Strip(search_var))
            rows == consultar_todos(db)
        IN  /\ ShowsExactly(tree', rows, Matching(q, rows))
            /\ q = <<>> => tree' = MostrarTodosItems(db)
            /\ db' = db
            /\ seq' = seq]_vars

C6_Witness ==
    /\ last.op = "on_buscar"
    /\ search_var = <<"A", "B">>
    /\ Len(tree) = 1
    /\ Cardinality(db) >= 2

\* C7: on_eliminar with no item selected shows the warning, and with an item
\* selected but the confirmation declined asks nothing of the Store; in both
\* cases the table and the listing are unchanged.
C7_DeleteNeedsSelectionAndConfirm ==
    [][last'.op = "on_eliminar" =>
        /\ selection = 0 => last'.msg = "warning_atencion"
        /\ (selection = 0 \/ ~last'.confirm) =>
             /\ last'.call = "none"
             /\ db' = db
             /\ tree' = tree]_vars

C7_Witness ==
    /\ last.op = "on_eliminar"
    /\ selection # 0
    /\ ~last.confirm
    /\ last.call = "none"

\* C8: without a fault, a delete of an id that matches no row returns True and
\* leaves the table unchanged, and a delete repeated with the same id returns
\* True again and changes nothing more.
C8_DeleteAbsentSucceeds ==
    [][(last'.op = "eliminar_producto" /\ ~last'.fault) =>
        /\ last'.id \notin Ids(db) => (last'.ok /\ db' = db)
        /\ (last.op = "eliminar_producto" /\ last.ok /\ last.id = last'.id) =>
             (last'.ok /\ db' = db)
        /\ last'.ok]_vars

C8_Witness ==
    /\ last.op = "eliminar_producto"
    /\ last.ok
    /\ last.id \notin assigned
    /\ db # {}

\* no two rows of the table share an id
UniqueIds == \A r1, r2 \in db : r1[1] = r2[1] => r1 = r2

\* C9: no two rows share an id, and the id an insert assigns is greater than
\* every id assigned before, deleted or not; the first is 1.
C9_IdsUniqueNeverReused ==
    /\ []UniqueIds
    /\ [][(last'.op = "insertar_producto" /\ last'.ok) =>
            \E r \in db' :
                /\ db' \ db = {r}
                /\ \A a \in assigned \cup Ids(db) : r[1] > a
                /\ assigned = {} => r[1] = 1]_vars

C9_Witness ==
    /\ last.op = "insertar_producto"
    /\ last.ok
    /\ Cardinality(db) >= 2
    /\ \E a \in assigned : a \notin Ids(db) /\ a < last.id

\* every item of the Treeview is the display of a row of the table
ListingShowsStoredRows ==
    \A i \in 1..Len(tree) : \E r \in db : r[1] = tree[i][1] /\ tree[i] = DisplayRow(r)

\* C10: every item of the listing shows a row that is in the table, and
\* on_eliminar never passes eliminar_producto an id the table does not hold.
C10_ListingNeverStale ==
    /\ []ListingShowsStoredRows
    /\ [][(last'.op = "on_eliminar" /\ last'.call = "eliminar_producto") =>
            last'.id \in Ids(db)]_vars

C10_Witness ==
    /\ EliminarOk(last)
    /\ tree # <<>>
    /\ Cardinality(db) >= 2

=============================================================================
